---- MODULE Spec2Model ----
(***************************************************************************)
(* The system bus of melon-gb (src/src/bus.rs): memory map, OAM DMA,       *)
(* VRAM DMA (GDMA / HBlank HDMA), interrupt flags, CGB speed switch and    *)
(* WRAM banking.  The Bus struct is one record; every method of Bus is an  *)
(* operator from a Bus record (and the call's arguments) to the Bus record *)
(* after the call.  The peripherals the bus owns (PPU, APU, timer,         *)
(* cartridge) are not part of the sources at hand; they are modelled from  *)
(* the interface contracts of spec.md, section 6.2.                        *)
(***************************************************************************)
EXTENDS Integers, Sequences, FiniteSets, TLC

VARIABLES
    bus,    \* the Bus struct (bus.rs 39-68)
    ret,    \* the last call made on the bus: its name, arguments and result
    oam_dma, \* history of the OAM DMA: the transfers started so far, and whether
             \* the running transfer has been left undisturbed since its start
    cpu     \* the Cpu struct's flags (cpu/mod.rs 12-28); its bus is the variable bus

vars == <<bus, ret, oam_dma, cpu>>

---------------------------------------------------------------------------
(* Constants of bus.rs *)

WRAM_SIZE == \h1000
HRAM_SIZE == \h0080
ROM_START == \h0000
ROM_END == \h7FFF
VRAM_START == \h8000
VRAM_END == \h9FFF
RAM_START == \hA000
RAM_END == \hBFFF
WRAM_START == \hC000
WRAM_END == \hDFFF
WRAM2_START == \hE000
WRAM2_END == \hFDFF
OAM_START == \hFE00
OAM_END == \hFE9F
EMPTY_START == \hFEA0
EMPTY_END == \hFEFF
HRAM_START == \hFF80
HRAM_END == \hFFFE
DMA_M_CYCLES == 160
HDMA_BLOCK_SIZE == \h10

---------------------------------------------------------------------------
(* Fixed-width integer arithmetic *)

RECURSIVE BitAnd(_, _)
BitAnd(a, b) ==
    IF a = 0 \/ b = 0 THEN 0
    ELSE (a % 2) * (b % 2) + 2 * BitAnd(a \div 2, b \div 2)

RECURSIVE BitOr(_, _)
BitOr(a, b) ==
    IF a = 0 THEN b
    ELSE IF b = 0 THEN a
    ELSE (IF a % 2 = 1 \/ b % 2 = 1 THEN 1 ELSE 0) + 2 * BitOr(a \div 2, b \div 2)

\* !x on a u8
Not8(x) == 255 - x

\* x as u8, x as u16
AsU8(x) == x % 256
AsU16(x) == x % 65536

\* x << 8 on a u16
Shl8(x) == AsU16(x * 256)

Byte == 0..255

Min(a, b) == IF a < b THEN a ELSE b

---------------------------------------------------------------------------
(* Arrays.  Every array of the emulator starts zeroed; an array is kept as  *)
(* the function from the indices holding a non-zero byte to that byte.     *)

EmptyMem == [k \in {} |-> 0]

Load(mem, k) == IF k \in DOMAIN mem THEN mem[k] ELSE 0

Store(mem, k, v) ==
    IF v = 0
    THEN (IF k \in DOMAIN mem THEN [x \in DOMAIN mem \ {k} |-> mem[x]] @@ EmptyMem ELSE mem)
    ELSE (k :> v) @@ mem

---------------------------------------------------------------------------
(* Peripherals, from their contracts (spec.md 6.2) *)

\* Cartridge without MBC: a fixed ROM image, RAM, and the boot-bank register.
RomImage(addr) == (addr * 7 + 3) % 256

NewCartridge == [ram |-> EmptyMem, bank |-> 0]

CartReadRom(c, addr) == RomImage(addr)
CartWriteRom(c, addr, byte) == c
CartReadRam(c, addr) == Load(c.ram, addr)
CartWriteRam(c, addr, byte) == [c EXCEPT !.ram = Store(@, addr, byte)]
CartReadBank(c) == c.bank
CartWriteBank(c, byte) == [c EXCEPT !.bank = byte]

\* PPU: VRAM, OAM, registers, the latched OAM-DMA page, the edge flags its
\* step leaves behind and the T-cycles its last step was given.
NewPpu ==
    [vram |-> EmptyMem, oam |-> EmptyMem, io |-> EmptyMem, dma |-> 0,
     hblank |-> FALSE, vblank |-> FALSE, stat |-> FALSE, cycles |-> 0]

PpuReadVram(p, addr) == Load(p.vram, addr)
PpuWriteVram(p, addr, byte) == [p EXCEPT !.vram = Store(@, addr, byte)]
PpuReadOam(p, addr) == Load(p.oam, addr)
PpuWriteOam(p, addr, byte) == [p EXCEPT !.oam = Store(@, addr, byte)]
PpuReadIo(p, addr) == Load(p.io, addr)
PpuWriteIo(p, addr, byte) == [p EXCEPT !.io = Store(@, addr, byte)]
PpuWriteDma(p, byte) == [p EXCEPT !.dma = byte]
PpuEnteredHblank(p) == p.hblank
PpuEnteredVblank(p) == p.vblank
PpuStatTriggered(p) == p.stat
\* step(t): what the pixel pipeline does in t cycles is outside the bus; the
\* edges it reports afterwards are the inputs hb, vb, st.
PpuStep(p, t, hb, vb, st) ==
    [p EXCEPT !.hblank = hb, !.vblank = vb, !.stat = st, !.cycles = t]

\* Timer: the 16-bit divider whose upper byte is DIV, and TIMA/TMA/TAC.
NewTimer == [div |-> 0, io |-> EmptyMem]

TimerReadDiv(t) == t.div \div 256
TimerResetDiv(t) == [t EXCEPT !.div = 0]
TimerStep(t, cycles) == [t EXCEPT !.div = AsU16(@ + cycles)]
TimerReadIo(t, addr) == IF addr = \hFF04 THEN TimerReadDiv(t) ELSE Load(t.io, addr)
TimerWriteIo(t, addr, byte) ==
    IF addr = \hFF04 THEN TimerResetDiv(t) ELSE [t EXCEPT !.io = Store(@, addr, byte)]

\* APU: the frame sequencer's phase, the registers and the T-cycles its last
\* step was given.
NewApu == [fs |-> 0, io |-> EmptyMem, cycles |-> 0]

ApuFrameSequencerStep(a) == [a EXCEPT !.fs = (@ + 1) % 8]
ApuStep(a, t) == [a EXCEPT !.cycles = t]
ApuReadIo(a, addr) == Load(a.io, addr)
ApuWriteIo(a, addr, byte) == [a EXCEPT !.io = Store(@, addr, byte)]

\* Joypad register (sdl2/joypad.rs): the bottom four bits are read-only.
NewJoypad == [joypad |-> 0]

JoypadRead(j) == j.joypad
JoypadWrite(j, byte) ==
    [j EXCEPT !.joypad = BitOr(BitAnd(byte, \hF0), BitAnd(@, \h0F))]

---------------------------------------------------------------------------
(* Bus *)

Models == {"DMG", "CGB"}
Interrupts == {"VBlank", "Stat", "Timer", "Serial", "Joypad"}

\* Bus::new
NewBus(model) ==
    [model |-> model,
     double_speed |-> FALSE,
     serial_output |-> <<>>,
     cartridge |-> NewCartridge,
     joypad |-> NewJoypad,
     apu |-> NewApu,
     ppu |-> NewPpu,
     timer |-> NewTimer,
     wram |-> EmptyMem,
     hram |-> EmptyMem,
     interrupt_enable |-> 0,
     interrupt_flag |-> \hE0,
     dma_start |-> 0,
     dma_ticks |-> DMA_M_CYCLES,
     key1 |-> 0,
     hdma1 |-> 0,
     hdma2 |-> 0,
     hdma3 |-> 0,
     hdma4 |-> 0,
     hdma5 |-> \hFF,
     rp |-> 0,
     svbk |-> 0,
     hdma_bytes |-> 0,
     hdma_mode |-> "None",
     hdma_length |-> 0]

is_cgb_always(s) == TRUE

is_cgb(s) == s.model = "CGB"

\* the bank 0xD000-0xDFFF selects on CGB (read_wram, write_wram)
wram_bank(s) == BitAnd(s.svbk, \h7) + (IF s.svbk = 0 THEN 1 ELSE 0)

read_wram(s, addr) ==
    IF addr < WRAM_START + WRAM_SIZE
    THEN Load(s.wram, <<0, addr - WRAM_START>>)
    ELSE IF is_cgb(s)
    THEN Load(s.wram, <<wram_bank(s), addr - WRAM_START - WRAM_SIZE>>)
    ELSE Load(s.wram, <<1, addr - WRAM_START - WRAM_SIZE>>)

write_wram(s, addr, byte) ==
    IF addr < WRAM_START + WRAM_SIZE
    THEN [s EXCEPT !.wram = Store(@, <<0, addr - WRAM_START>>, byte)]
    ELSE IF is_cgb(s)
    THEN [s EXCEPT !.wram = Store(@, <<wram_bank(s), addr - WRAM_START - WRAM_SIZE>>, byte)]
    ELSE [s EXCEPT !.wram = Store(@, <<1, addr - WRAM_START - WRAM_SIZE>>, byte)]

echo_addr_one_bank(addr) == addr - WRAM_SIZE

\* the WRAM address an echo-RAM address 0xE000-0xFDFF stands for
echo_addr(addr) == addr - 2 * WRAM_SIZE

read_hdma5(s) ==
    LET status == IF s.hdma_mode # "HDMA" THEN \h80 ELSE \h00
    IN  BitOr(status, s.hdma_length)

InRange(addr, lo, hi) == lo <= addr /\ addr <= hi

read_byte(s, addr) ==
    CASE InRange(addr, ROM_START, ROM_END) -> CartReadRom(s.cartridge, addr)
      [] InRange(addr, VRAM_START, VRAM_END) -> PpuReadVram(s.ppu, addr)
      [] InRange(addr, RAM_START, RAM_END) -> CartReadRam(s.cartridge, addr)
      [] InRange(addr, WRAM_START, WRAM_END) -> read_wram(s, addr)
      [] InRange(addr, WRAM2_START, WRAM2_END) -> read_wram(s, echo_addr(addr))
      [] InRange(addr, OAM_START, OAM_END) -> PpuReadOam(s.ppu, addr)
      [] InRange(addr, EMPTY_START, EMPTY_END) -> \hFF
      [] addr = \hFF00 -> JoypadRead(s.joypad)
      [] InRange(addr, \hFF04, \hFF07) -> TimerReadIo(s.timer, addr)
      [] addr = \hFF0F -> s.interrupt_flag
      [] InRange(addr, \hFF10, \hFF26) -> ApuReadIo(s.apu, addr)
      [] InRange(addr, \hFF30, \hFF3F) -> ApuReadIo(s.apu, addr)
      [] InRange(addr, \hFF40, \hFF4B) -> PpuReadIo(s.ppu, addr)
      [] addr = \hFF50 -> CartReadBank(s.cartridge)
      [] addr = \hFF4D /\ is_cgb(s) -> s.key1
      [] addr = \hFF4F /\ is_cgb(s) -> PpuReadIo(s.ppu, addr)
      [] addr = \hFF55 /\ is_cgb(s) -> read_hdma5(s)
      [] addr = \hFF56 /\ is_cgb(s) -> s.rp
      [] InRange(addr, \hFF68, \hFF6C) /\ is_cgb(s) -> PpuReadIo(s.ppu, addr)
      [] addr = \hFF70 /\ is_cgb(s) -> s.svbk
      [] addr = \hFF76 /\ is_cgb(s) -> ApuReadIo(s.apu, addr)
      [] addr = \hFF77 /\ is_cgb(s) -> ApuReadIo(s.apu, addr)
      [] InRange(addr, HRAM_START, HRAM_END) -> Load(s.hram, addr - HRAM_START)
      [] addr = \hFFFF -> s.interrupt_enable
      [] OTHER -> \hFF

\* one M-cycle of the OAM DMA: the body of the loop of step_oam_dma
oam_dma_tick(s) ==
    LET dma_index == s.dma_ticks
        byte == read_byte(s, BitOr(s.dma_start, dma_index))
    IN  [s EXCEPT !.ppu = PpuWriteOam(@, BitOr(\hFE00, dma_index), byte),
                  !.dma_ticks = @ + 1]

\* n runs of the loop body, one after another: the first half of the runs
\* leaves the bus on which the second half starts
RECURSIVE oam_dma_ticks(_, _)
oam_dma_ticks(s, n) ==
    IF n = 0 THEN s
    ELSE IF n = 1 THEN oam_dma_tick(s)
    ELSE LET half == oam_dma_ticks(s, n \div 2)
         IN  IF half.dma_ticks <= DMA_M_CYCLES
             THEN oam_dma_ticks(half, n - n \div 2)
             ELSE half

step_oam_dma_uncapped(s, m_cycles) == oam_dma_ticks(s, m_cycles)

\* while m_cycles > 0 && dma_ticks < DMA_M_CYCLES: the body runs m_cycles
\* times, or as often as dma_ticks is short of DMA_M_CYCLES if that is less
step_oam_dma(s, m_cycles) ==
    oam_dma_ticks(s, IF s.dma_ticks < DMA_M_CYCLES
                     THEN Min(m_cycles, DMA_M_CYCLES - s.dma_ticks)
                     ELSE 0)

write_dma_no_tick(s, byte) ==
    [s EXCEPT !.ppu = PpuWriteDma(@, byte), !.dma_start = Shl8(byte), !.dma_ticks = 0]

write_dma_keep_ticks(s, byte) ==
    step_oam_dma([s EXCEPT !.ppu = PpuWriteDma(@, byte), !.dma_start = Shl8(byte)], 1)

write_dma(s, byte) ==
    step_oam_dma(
        [s EXCEPT !.ppu = PpuWriteDma(@, byte), !.dma_start = Shl8(byte), !.dma_ticks = 0],
        1)

write_hdma5_keep_bytes(s, byte) ==
    LET mode == IF BitAnd(byte, \h80) = 0
                THEN (IF s.hdma_mode = "HDMA" THEN "None" ELSE "GDMA")
                ELSE "HDMA"
    IN  [s EXCEPT !.hdma5 = byte,
                  !.hdma_length = BitAnd(byte, \h7F),
                  !.hdma_mode = mode]

write_hdma5(s, byte) ==
    LET mode == IF BitAnd(byte, \h80) = 0
                THEN (IF s.hdma_mode = "HDMA" THEN "None" ELSE "GDMA")
                ELSE "HDMA"
    IN  [s EXCEPT !.hdma5 = byte,
                  !.hdma_length = BitAnd(byte, \h7F),
                  !.hdma_bytes = 0,
                  !.hdma_mode = mode]

write_interrupt_flag_raw(byte) == byte

\* the value write_byte stores in IF (0xFF0F)
write_interrupt_flag(byte) == BitOr(\hE0, byte)

serial_push_printable(log, byte) == IF byte >= \h20 THEN Append(log, byte) ELSE log

\* serial_output.push(char::from(byte)): the String is kept as the sequence of
\* its chars, a char as its scalar value, which for char::from(u8) is the byte
serial_push(log, byte) == Append(log, byte)

write_byte(s, addr, byte) ==
    CASE InRange(addr, ROM_START, ROM_END) ->
            [s EXCEPT !.cartridge = CartWriteRom(@, addr, byte)]
      [] InRange(addr, VRAM_START, VRAM_END) ->
            [s EXCEPT !.ppu = PpuWriteVram(@, addr, byte)]
      [] InRange(addr, RAM_START, RAM_END) ->
            [s EXCEPT !.cartridge = CartWriteRam(@, addr, byte)]
      [] InRange(addr, WRAM_START, WRAM_END) -> write_wram(s, addr, byte)
      [] InRange(addr, WRAM2_START, WRAM2_END) -> write_wram(s, echo_addr(addr), byte)
      [] InRange(addr, OAM_START, OAM_END) ->
            [s EXCEPT !.ppu = PpuWriteOam(@, addr, byte)]
      [] InRange(addr, EMPTY_START, EMPTY_END) -> s
      [] addr = \hFF00 -> [s EXCEPT !.joypad = JoypadWrite(@, byte)]
      [] addr = \hFF01 -> [s EXCEPT !.serial_output = serial_push(@, byte)]
      [] InRange(addr, \hFF04, \hFF07) ->
            [s EXCEPT !.timer = TimerWriteIo(@, addr, byte)]
      [] addr = \hFF0F -> [s EXCEPT !.interrupt_flag = write_interrupt_flag(byte)]
      [] InRange(addr, \hFF10, \hFF26) -> [s EXCEPT !.apu = ApuWriteIo(@, addr, byte)]
      [] InRange(addr, \hFF30, \hFF3F) -> [s EXCEPT !.apu = ApuWriteIo(@, addr, byte)]
      [] addr = \hFF46 -> write_dma(s, byte)
      [] InRange(addr, \hFF40, \hFF4B) /\ addr # \hFF46 ->
            [s EXCEPT !.ppu = PpuWriteIo(@, addr, byte)]
      [] addr = \hFF50 -> [s EXCEPT !.cartridge = CartWriteBank(@, byte)]
      [] addr = \hFF4D /\ is_cgb(s) -> [s EXCEPT !.key1 = BitAnd(byte, \h7F)]
      [] addr = \hFF4F /\ is_cgb(s) -> [s EXCEPT !.ppu = PpuWriteIo(@, addr, byte)]
      [] addr = \hFF51 /\ is_cgb(s) -> [s EXCEPT !.hdma1 = byte]
      [] addr = \hFF52 /\ is_cgb(s) -> [s EXCEPT !.hdma2 = byte]
      [] addr = \hFF53 /\ is_cgb(s) -> [s EXCEPT !.hdma3 = byte]
      [] addr = \hFF54 /\ is_cgb(s) -> [s EXCEPT !.hdma4 = byte]
      [] addr = \hFF55 /\ is_cgb(s) -> write_hdma5(s, byte)
      [] addr = \hFF56 /\ is_cgb(s) -> [s EXCEPT !.rp = BitAnd(byte, \hFD)]
      [] InRange(addr, \hFF68, \hFF6C) /\ is_cgb(s) ->
            [s EXCEPT !.ppu = PpuWriteIo(@, addr, byte)]
      [] addr = \hFF70 /\ is_cgb(s) -> [s EXCEPT !.svbk = byte]
      [] InRange(addr, HRAM_START, HRAM_END) ->
            [s EXCEPT !.hram = Store(@, addr - HRAM_START, byte)]
      [] addr = \hFFFF -> [s EXCEPT !.interrupt_enable = byte]
      [] OTHER -> s

hdma_transfer_blocks(s) == BitAnd(s.hdma5, \h7F) + 1

hdma_source_start(s) == BitAnd(BitOr(s.hdma1 * 256, s.hdma2), \hFFF0)

hdma_dest_start_unmasked(s) == BitOr(\h8000, BitAnd(BitOr(s.hdma3 * 256, s.hdma4), \h1FFF))

hdma_dest_start(s) == BitOr(\h8000, BitAnd(BitOr(s.hdma3 * 256, s.hdma4), \h1FF0))

\* the loop of transfer_block_to_vram from i on: source_start and dest_start
\* are taken once, before the loop
RECURSIVE transfer_bytes(_, _, _, _)
transfer_bytes(s, source_start, dest_start, i) ==
    IF i < HDMA_BLOCK_SIZE
    THEN LET byte == read_byte(s, AsU16(source_start + s.hdma_bytes + i))
         IN  transfer_bytes(
                 [s EXCEPT !.ppu = PpuWriteVram(@, dest_start + s.hdma_bytes + i, byte)],
                 source_start, dest_start, i + 1)
    ELSE s

\* transfer_block_to_vram: the bus after the block; the call returns 32
transfer_block_to_vram(s) ==
    [transfer_bytes(s, hdma_source_start(s), hdma_dest_start(s), 0)
        EXCEPT !.hdma_bytes = @ + HDMA_BLOCK_SIZE]

BLOCK_T_CYCLES == 32

\* for _ in 0..n { transfer_block_to_vram() }; hdma_bytes is a usize
RECURSIVE transfer_blocks(_, _)
transfer_blocks(s, n) ==
    IF n > 0 /\ s.hdma_bytes >= 0 THEN transfer_blocks(transfer_block_to_vram(s), n - 1) ELSE s

step_vram_gdma_short(s) ==
    LET n == hdma_transfer_blocks(s) - 1
    IN  [bus |-> [transfer_blocks(s, n) EXCEPT !.hdma_length = \h7F, !.hdma_mode = "None"],
         t |-> n * BLOCK_T_CYCLES]

\* the methods that return T-cycles give the bus after the call and the cycles
step_vram_gdma(s) ==
    LET n == hdma_transfer_blocks(s)
    IN  [bus |-> [transfer_blocks(s, n) EXCEPT !.hdma_length = \h7F, !.hdma_mode = "None"],
         t |-> n * BLOCK_T_CYCLES]

hdma_block_done_decrement_twice(s) ==
    LET s1 == transfer_block_to_vram(s)
    IN  IF s1.hdma_bytes = hdma_transfer_blocks(s1) * HDMA_BLOCK_SIZE
        THEN [bus |-> [s1 EXCEPT !.hdma_mode = "None", !.hdma_length = \h7F],
              t |-> BLOCK_T_CYCLES]
        ELSE [bus |-> [s1 EXCEPT !.hdma_length = AsU8(@ + 254)],
              t |-> BLOCK_T_CYCLES]

\* the body of step_vram_hdma after the entered_hblank test
hdma_block_done(s) ==
    LET s1 == transfer_block_to_vram(s)
    IN  IF s1.hdma_bytes = hdma_transfer_blocks(s1) * HDMA_BLOCK_SIZE
        THEN [bus |-> [s1 EXCEPT !.hdma_mode = "None", !.hdma_length = \h7F],
              t |-> BLOCK_T_CYCLES]
        ELSE [bus |-> [s1 EXCEPT !.hdma_length = AsU8(@ + 255)],
              t |-> BLOCK_T_CYCLES]

step_vram_hdma_any_step(s) == hdma_block_done(s)

step_vram_hdma(s) ==
    IF ~PpuEnteredHblank(s.ppu)
    THEN [bus |-> s, t |-> 0]
    ELSE hdma_block_done(s)

step_vram_dma(s) ==
    IF ~is_cgb(s) THEN [bus |-> s, t |-> 0]
    ELSE CASE s.hdma_mode = "GDMA" -> step_vram_gdma(s)
           [] s.hdma_mode = "HDMA" -> step_vram_hdma(s)
           [] s.hdma_mode = "None" -> [bus |-> s, t |-> 0]

InterruptBit(interrupt) ==
    CASE interrupt = "VBlank" -> 1
      [] interrupt = "Stat" -> 2
      [] interrupt = "Timer" -> 4
      [] interrupt = "Serial" -> 8
      [] interrupt = "Joypad" -> 16

request_interrupt_if_enabled(s, interrupt) ==
    IF BitAnd(s.interrupt_enable, InterruptBit(interrupt)) # 0
    THEN [s EXCEPT !.interrupt_flag = BitOr(@, InterruptBit(interrupt))]
    ELSE s

request_interrupt_overwrite(s, interrupt) ==
    [s EXCEPT !.interrupt_flag = BitOr(\hE0, InterruptBit(interrupt))]

request_interrupt(s, interrupt) ==
    [s EXCEPT !.interrupt_flag = BitOr(@, InterruptBit(interrupt))]

partial_step_bit4(s, t_cycles, overflow) ==
    LET s1 == step_oam_dma(s, t_cycles \div 4)
        old_div == TimerReadDiv(s1.timer)
        s2 == [s1 EXCEPT !.timer = TimerStep(@, t_cycles)]
        s3 == IF overflow THEN request_interrupt(s2, "Timer") ELSE s2
    IN  IF BitAnd(old_div, \h10) # 0 /\ BitAnd(TimerReadDiv(s3.timer), \h10) = 0
        THEN [s3 EXCEPT !.apu = ApuFrameSequencerStep(@)]
        ELSE s3

\* partial_step; overflow is what timer.step returned
partial_step(s, t_cycles, overflow) ==
    LET s1 == step_oam_dma(s, t_cycles \div 4)
        old_div == TimerReadDiv(s1.timer)
        s2 == [s1 EXCEPT !.timer = TimerStep(@, t_cycles)]
        s3 == IF overflow THEN request_interrupt(s2, "Timer") ELSE s2
        bit == IF s3.double_speed THEN \h20 ELSE \h10
    IN  IF BitAnd(old_div, bit) # 0 /\ BitAnd(TimerReadDiv(s3.timer), bit) = 0
        THEN [s3 EXCEPT !.apu = ApuFrameSequencerStep(@)]
        ELSE s3

step_budget_halved_last(s, t_cycles) ==
    IF s.double_speed
    THEN (t_cycles + step_vram_dma(s).t) \div 2
    ELSE t_cycles + step_vram_dma(s).t

\* the T-cycles step hands to apu.step and ppu.step
step_budget(s, t_cycles) ==
    (IF s.double_speed THEN t_cycles \div 2 ELSE t_cycles) + step_vram_dma(s).t

\* step; hb, vb, st are the edges the PPU reports after its step, jp what
\* joypad.interrupt_triggered returns
step(s, t_cycles, hb, vb, st, jp) ==
    LET t == step_budget(s, t_cycles)
        s1 == step_vram_dma(s).bus
        s2 == [s1 EXCEPT !.apu = ApuStep(@, t), !.ppu = PpuStep(@, t, hb, vb, st)]
        s3 == IF PpuEnteredVblank(s2.ppu) THEN request_interrupt(s2, "VBlank") ELSE s2
        s4 == IF PpuStatTriggered(s3.ppu) THEN request_interrupt(s3, "Stat") ELSE s3
    IN  IF jp THEN request_interrupt(s4, "Joypad") ELSE s4

speed_switch_unarmed(s) ==
    IF is_cgb(s)
    THEN LET k == BitAnd(s.key1, \hFE)
         IN  [bus |-> [s EXCEPT !.key1 = BitOr(Not8(BitAnd(k, \h80)), BitAnd(k, \h7F)),
                                !.double_speed = ~@,
                                !.timer = TimerResetDiv(@)],
              val |-> TRUE]
    ELSE [bus |-> s, val |-> FALSE]

\* speed_switch: the bus after the call and the value returned
speed_switch(s) ==
    IF is_cgb(s) /\ BitAnd(s.key1, 1) # 0
    THEN LET k == BitAnd(s.key1, \hFE)
         IN  [bus |-> [s EXCEPT !.key1 = BitOr(Not8(BitAnd(k, \h80)), BitAnd(k, \h7F)),
                                !.double_speed = ~@,
                                !.timer = TimerResetDiv(@)],
              val |-> TRUE]
    ELSE [bus |-> s, val |-> FALSE]

---------------------------------------------------------------------------
(* The CPU's step (cpu/mod.rs). Opcode decoding and interrupt entry are    *)
(* not part of the sources at hand; an instruction is reduced to its       *)
(* memory accesses, each followed by a partial_step, and its effect on     *)
(* the CPU's flags.                                                        *)

\* a statement sequence: value is computed once, then rest is applied to it
AfterEach(value, rest(_)) == CHOOSE out \in {rest(v) : v \in {value}} : TRUE

\* Cpu::new: the flags; the registers are left out
NewCpu ==
    [scheduled_ei |-> FALSE, ime |-> FALSE, halted |-> FALSE, halt_bug |-> FALSE,
     halt_triggered |-> FALSE, cycles_so_far |-> 0]

get_pending_interrupt_highest_first(s) ==
    LET interrupt_enable == read_byte(s, \hFFFF)
        interrupt_flag == read_byte(s, \hFF0F)
        hit(bit) == BitAnd(interrupt_enable, 2 ^ bit) # 0 /\ BitAnd(interrupt_flag, 2 ^ bit) # 0
    IN  [bus |-> s,
         val |-> IF hit(4) THEN "Joypad"
                 ELSE IF hit(3) THEN "Serial"
                 ELSE IF hit(2) THEN "Timer"
                 ELSE IF hit(1) THEN "Stat"
                 ELSE IF hit(0) THEN "VBlank"
                 ELSE "None"]

\* get_pending_interrupt: the bus after the call and the value returned
get_pending_interrupt(s) ==
    LET interrupt_enable == read_byte(s, \hFFFF)
        interrupt_flag == read_byte(s, \hFF0F)
        hit(bit) == BitAnd(interrupt_enable, 2 ^ bit) # 0 /\ BitAnd(interrupt_flag, 2 ^ bit) # 0
    IN  [bus |-> s,
         val |-> IF hit(0) THEN "VBlank"
                 ELSE IF hit(1) THEN "Stat"
                 ELSE IF hit(2) THEN "Timer"
                 ELSE IF hit(3) THEN "Serial"
                 ELSE IF hit(4) THEN "Joypad"
                 ELSE "None"]

\* execute_next_instruction: the opcode fetch and every further access are
\* followed by a partial_step of one M-cycle; overflow is what timer.step
\* returned after the fetch. Gives the flags, the bus and the M-cycles taken.
execute_next_instruction(c, s, instr, overflow) ==
    CASE instr.op = "NOP" -> [cpu |-> c, bus |-> partial_step(s, 4, overflow), cycles |-> 1]
      [] instr.op = "EI" ->
            [cpu |-> [c EXCEPT !.scheduled_ei = TRUE],
             bus |-> partial_step(s, 4, overflow), cycles |-> 1]
      [] instr.op = "DI" ->
            [cpu |-> [c EXCEPT !.ime = FALSE],
             bus |-> partial_step(s, 4, overflow), cycles |-> 1]
      [] instr.op = "HALT" ->
            [cpu |-> [c EXCEPT !.halted = TRUE, !.halt_triggered = TRUE],
             bus |-> partial_step(s, 4, overflow), cycles |-> 1]
      [] instr.op = "LDH" ->
            AfterEach(partial_step(s, 4, overflow), LAMBDA s1 :
            AfterEach(partial_step(s1, 4, FALSE), LAMBDA s2 :
            AfterEach(write_byte(s2, instr.addr, instr.byte), LAMBDA s3 :
                [cpu |-> c, bus |-> partial_step(s3, 4, FALSE), cycles |-> 3])))

\* handle_interrupt: servicing clears the interrupt's IF bit and takes five
\* M-cycles
handle_interrupt(s, interrupt) ==
    [bus |-> [s EXCEPT !.interrupt_flag = BitAnd(@, \hFF - InterruptBit(interrupt))],
     cycles |-> 5]

\* cycle: the flags, the bus, the M-cycles taken and the interrupt dispatched
cycle(c, s, instr, overflow) ==
    LET c1 == [c EXCEPT !.halt_triggered = FALSE,
                        !.ime = IF c.scheduled_ei THEN TRUE ELSE @,
                        !.scheduled_ei = FALSE]
    IN  AfterEach(IF ~c1.halted
                  THEN execute_next_instruction(c1, s, instr, overflow)
                  ELSE [cpu |-> c1, bus |-> s, cycles |-> 1],
                  LAMBDA e :
        AfterEach(get_pending_interrupt(e.bus).val, LAMBDA interrupt :
            IF interrupt # "None"
            THEN LET h == IF e.cpu.ime
                          THEN handle_interrupt(e.bus, interrupt)
                          ELSE [bus |-> e.bus, cycles |-> 0]
                 IN  [cpu |-> [e.cpu EXCEPT
                                  !.halt_bug = IF ~e.cpu.ime /\ e.cpu.halt_triggered
                                               THEN TRUE ELSE @,
                                  !.ime = FALSE,
                                  !.halted = FALSE],
                      bus |-> h.bus,
                      cycles |-> e.cycles + h.cycles,
                      dispatched |-> IF e.cpu.ime THEN interrupt ELSE "None"]
            ELSE [cpu |-> e.cpu, bus |-> e.bus, cycles |-> e.cycles, dispatched |-> "None"]))

cpu_step_post_first(c, s, instr, overflow, vb, st, jp) ==
    AfterEach(step(s, 4, FALSE, vb, st, jp), LAMBDA s1 :
    AfterEach(cycle(c, s1, instr, overflow), LAMBDA r :
        [cpu |-> [r.cpu EXCEPT !.cycles_so_far = 0],
         bus |-> r.bus,
         cycles |-> r.cycles,
         dispatched |-> r.dispatched]))

\* Cpu::step; vb, st, jp are the edges the PPU and the joypad report in the
\* bus's step, which is given the M-cycles not yet charged as T-cycles
cpu_step(c, s, instr, overflow, vb, st, jp) ==
    AfterEach(cycle(c, s, instr, overflow), LAMBDA r :
        [cpu |-> [r.cpu EXCEPT !.cycles_so_far = 0],
         bus |-> IF r.cycles > 0
                 THEN step(r.bus, 4 * (r.cycles - r.cpu.cycles_so_far), FALSE, vb, st, jp)
                 ELSE r.bus,
         cycles |-> r.cycles,
         dispatched |-> r.dispatched])

---------------------------------------------------------------------------
(* Calls on the bus *)

Call(op, a, b, val) == [op |-> op, a |-> a, b |-> b, val |-> val]

NoCall == Call("new", 0, 0, FALSE)

\* byte i of the page the OAM DMA copies from, as the DMA reads it
DmaSource(s, i) == read_byte(s, BitOr(s.dma_start, i))

\* a call taking the bus from s to s2 changed neither a byte of the DMA's
\* source page nor an OAM byte the DMA had already copied
DmaUndisturbed(s, s2) ==
    /\ \A i \in 0..(DMA_M_CYCLES - 1) : DmaSource(s2, i) = DmaSource(s, i)
    /\ \A i \in 0..(s.dma_ticks - 1) :
          PpuReadOam(s2.ppu, OAM_START + i) = PpuReadOam(s.ppu, OAM_START + i)

NoOamDma == [starts |-> 0, clean |-> FALSE]

\* the history after a call: a write to 0xFF46 starts a transfer; any other call
\* keeps the last transfer clean if it disturbed nothing
TrackOamDma(started) ==
    oam_dma' =
        IF started
        THEN [starts |-> oam_dma.starts + 1, clean |-> TRUE]
        ELSE [starts |-> oam_dma.starts,
              clean |-> oam_dma.clean /\ DmaUndisturbed(bus, bus')]

DoWriteByte(addr, byte) ==
    /\ bus' = write_byte(bus, addr, byte)
    /\ ret' = Call("write_byte", addr, byte, FALSE)
    /\ TrackOamDma(addr = \hFF46)
    /\ UNCHANGED cpu

DoRequestInterrupt(interrupt) ==
    /\ bus' = request_interrupt(bus, interrupt)
    /\ ret' = Call("request_interrupt", InterruptBit(interrupt), 0, FALSE)
    /\ TrackOamDma(FALSE)
    /\ UNCHANGED cpu

DoPartialStep(t_cycles, overflow) ==
    /\ bus' = partial_step(bus, t_cycles, overflow)
    /\ ret' = Call("partial_step", t_cycles, 0, overflow)
    /\ TrackOamDma(FALSE)
    /\ UNCHANGED cpu

DoStep(t_cycles, hb, vb, st, jp) ==
    /\ bus' = step(bus, t_cycles, hb, vb, st, jp)
    /\ ret' = Call("step", t_cycles, step_budget(bus, t_cycles), PpuEnteredHblank(bus.ppu))
    /\ TrackOamDma(FALSE)
    /\ UNCHANGED cpu

DoSpeedSwitch ==
    /\ bus' = speed_switch(bus).bus
    /\ ret' = Call("speed_switch", 0, 0, speed_switch(bus).val)
    /\ TrackOamDma(FALSE)
    /\ UNCHANGED cpu

\* the bus as Bus::new leaves it, no call made yet
Fresh(models) ==
    /\ bus \in {NewBus(m) : m \in models}
    /\ ret = NoCall
    /\ oam_dma = NoOamDma
    /\ cpu = NewCpu

---------------------------------------------------------------------------
(* Interrupt flags: every byte written to IF, interrupts requested by the  *)
(* CPU side and by the two step entry points.                              *)

IrqTCycles == {\h8000}

\* the bytes written to IF: every value of the top three bits, with no, some
\* and all of the five interrupt bits
IrqFlagBytes == {hi * 32 + lo : hi \in 0..7, lo \in {\h00, \h05, \h1F}}

IrqInit == Fresh(Models)

IrqWriteFlag == \E byte \in IrqFlagBytes : DoWriteByte(\hFF0F, byte)

IrqRequest == \E interrupt \in Interrupts : DoRequestInterrupt(interrupt)

IrqPartialStep == \E t \in IrqTCycles, overflow \in BOOLEAN : DoPartialStep(t, overflow)

IrqStep ==
    \E t \in IrqTCycles, vb \in BOOLEAN, st \in BOOLEAN, jp \in BOOLEAN :
        DoStep(t, FALSE, vb, st, jp)

IrqNext ==
    \/ IrqWriteFlag
    \/ IrqRequest
    \/ IrqPartialStep
    \/ IrqStep

SpecIrq == IrqInit /\ [][IrqNext]_vars

\* C1: whatever bytes were written to 0xFF0F and whatever interrupts were
\* requested, by the CPU or by partial_step and step, a read of 0xFF0F has its
\* top three bits set.
C1_IfTopBitsSet == BitAnd(read_byte(bus, \hFF0F), \hE0) = \hE0

\* a write of 0x00 to IF has just returned
C1_Witness ==
    /\ ret = Call("write_byte", \hFF0F, \h00, FALSE)
    /\ read_byte(bus, \hFF0F) = \hE0

\* the IF bits an instruction's edges call for: timer overflow in one of its
\* partial_step calls, and the PPU and joypad edges of its step call
IrqEdgeBits(ov1, ov2, vb, st, jp) ==
    (IF vb THEN 1 ELSE 0) + (IF st THEN 2 ELSE 0) + (IF ov1 \/ ov2 THEN 4 ELSE 0)
        + (IF jp THEN 16 ELSE 0)

IrqEnableBytes == {\h00, \h1F}

\* the bus after an instruction of two partial_step calls and the closing step
IrqInstruction(s, t, ov1, ov2, vb, st, jp) ==
    step(partial_step(partial_step(s, t, ov1), t, ov2), t, FALSE, vb, st, jp)

\* C12: whatever IE holds, after an instruction's partial_step calls and its
\* step call IF has the bit of every edge that occurred in it: bit 2 for a timer
\* overflow in any partial_step, bit 0 for entered_vblank, bit 1 for
\* stat_triggered, bit 4 for the joypad; several edges set all their bits, and
\* VBlank plus Timer from IF & 0x1F = 0 gives IF & 0x1F = 0x05.
C12_EdgesReachIf ==
    \A ie \in IrqEnableBytes, t \in IrqTCycles, ov1 \in BOOLEAN, ov2 \in BOOLEAN,
       vb \in BOOLEAN, st \in BOOLEAN, jp \in BOOLEAN :
        LET s0 == write_byte(bus, \hFFFF, ie)
            s3 == IrqInstruction(s0, t, ov1, ov2, vb, st, jp)
            bits == IrqEdgeBits(ov1, ov2, vb, st, jp)
        IN  /\ BitAnd(read_byte(s3, \hFF0F), bits) = bits
            /\ (BitAnd(bus.interrupt_flag, \h1F) = 0 /\ bits = \h05)
                  => BitAnd(read_byte(s3, \hFF0F), \h1F) = \h05

\* a step in which the PPU entered VBlank has just returned, and IF shows
\* VBlank and Timer and nothing else
C12_Witness ==
    /\ ret.op = "step"
    /\ PpuEnteredVblank(bus.ppu)
    /\ ~PpuStatTriggered(bus.ppu)
    /\ bus.interrupt_enable = 0
    /\ BitAnd(read_byte(bus, \hFF0F), \h1F) = \h05

\* bit number of each interrupt in IF, as the claims list them
IrqBitIndex(interrupt) ==
    CASE interrupt = "VBlank" -> 0
      [] interrupt = "Stat" -> 1
      [] interrupt = "Timer" -> 2
      [] interrupt = "Serial" -> 3
      [] interrupt = "Joypad" -> 4

\* addresses other than 0xFF0F written to, and the bytes written
IrqOtherAddrs == {\h0000, \h8000, \hC000, \hFE00, \hFF00, \hFF04, \hFF0E, \hFF10, \hFF40,
                  \hFF46, \hFF4D, \hFF55, \hFF70, \hFF80, \hFFFF}
IrqOtherBytes == {\h00, \hFF}

\* s2 has every IF bit that s has
IrqKept(s, s2) == BitAnd(s2.interrupt_flag, s.interrupt_flag) = s.interrupt_flag

\* C13: request_interrupt(kind) sets the IF bit of kind (VBlank 0, Stat 1,
\* Timer 2, Serial 3, Joypad 4) and changes nothing else of the bus; and no
\* partial_step, step, request_interrupt, speed_switch or write to an address
\* other than 0xFF0F clears a bit that is set in IF.
C13_IfOnlyGrows ==
    /\ \A interrupt \in Interrupts :
          LET s2 == request_interrupt(bus, interrupt)
              bit == 2 ^ IrqBitIndex(interrupt)
          IN  /\ s2.interrupt_flag = BitOr(bus.interrupt_flag, bit)
              /\ [s2 EXCEPT !.interrupt_flag = bus.interrupt_flag] = bus
              /\ IrqKept(bus, s2)
    /\ \A t \in IrqTCycles, overflow \in BOOLEAN : IrqKept(bus, partial_step(bus, t, overflow))
    /\ \A t \in IrqTCycles, hb \in BOOLEAN, vb \in BOOLEAN, st \in BOOLEAN, jp \in BOOLEAN :
          IrqKept(bus, step(bus, t, hb, vb, st, jp))
    /\ IrqKept(bus, speed_switch(bus).bus)
    /\ \A addr \in IrqOtherAddrs, byte \in IrqOtherBytes :
          write_byte(bus, addr, byte).interrupt_flag = bus.interrupt_flag

\* request_interrupt(Stat) has just returned with VBlank and Timer already
\* pending: the three bits are set
C13_Witness ==
    /\ ret = Call("request_interrupt", 2, 0, FALSE)
    /\ BitAnd(bus.interrupt_flag, \h1F) = \h07

---------------------------------------------------------------------------
(* CGB speed switch: writes to KEY1, speed_switch (the STOP opcode) and    *)
(* the timer running in between.                                           *)

SpeedKey1Bytes == {\h00, \h01, \h7E, \h80, \h81, \hFF}
SpeedTCycles == {\h2000}

SpeedInit == Fresh(Models)

SpeedWriteKey1 == \E byte \in SpeedKey1Bytes : DoWriteByte(\hFF4D, byte)

SpeedSwitch == DoSpeedSwitch

SpeedPartialStep == \E t \in SpeedTCycles : DoPartialStep(t, FALSE)

SpeedNext ==
    \/ SpeedWriteKey1
    \/ SpeedSwitch
    \/ SpeedPartialStep

SpecSpeed == SpeedInit /\ [][SpeedNext]_vars

\* C2: on a CGB bus in single speed whose KEY1 holds 0x01 (the initial bus after
\* a write of 0x01 to 0xFF4D), speed_switch returns true and leaves KEY1 reading
\* exactly 0x80, the double-speed flag on and DIV reset.
C2_SwitchFromArmed ==
    [][(/\ is_cgb(bus)
        /\ bus.key1 = \h01
        /\ ~bus.double_speed
        /\ ret'.op = "speed_switch")
       => (/\ ret'.val = TRUE
           /\ read_byte(bus', \hFF4D) = \h80
           /\ bus'.double_speed
           /\ TimerReadDiv(bus'.timer) = 0)]_vars

\* C3: when speed_switch has just returned true the armed bit (KEY1 bit 0) is
\* clear, and a second speed_switch, with no write to 0xFF4D in between,
\* returns false and does not flip the double-speed flag.
C3_SwitchDisarms ==
    (ret.op = "speed_switch" /\ ret.val = TRUE)
    => (/\ BitAnd(read_byte(bus, \hFF4D), \h01) = 0
        /\ speed_switch(bus).val = FALSE
        /\ speed_switch(bus).bus.double_speed = bus.double_speed)

\* C4: on CGB, bit 7 of the KEY1 value read at 0xFF4D equals the double-speed
\* flag, after any interleaving of KEY1 writes and speed_switch calls.
C4_Key1MirrorsSpeed ==
    is_cgb(bus) => ((BitAnd(read_byte(bus, \hFF4D), \h80) # 0) = bus.double_speed)

\* C16: speed_switch returns false and leaves KEY1, the double-speed flag and
\* the timer's DIV (indeed the whole bus) unchanged whenever the model is DMG or
\* KEY1 bit 0 is clear; it returns true only on CGB with KEY1 bit 0 set.
C16_SwitchRefused ==
    LET r == speed_switch(bus)
    IN  /\ (bus.model = "DMG" \/ BitAnd(bus.key1, 1) = 0) =>
              /\ r.val = FALSE
              /\ r.bus.key1 = bus.key1
              /\ r.bus.double_speed = bus.double_speed
              /\ TimerReadDiv(r.bus.timer) = TimerReadDiv(bus.timer)
              /\ r.bus = bus
        /\ r.val = TRUE => (bus.model = "CGB" /\ BitAnd(bus.key1, 1) = 1)

\* on CGB, with KEY1 = 0x7E (bit 0 clear) and DIV running, speed_switch has
\* just returned false
C16_Witness ==
    /\ bus.model = "CGB"
    /\ ret = Call("speed_switch", 0, 0, FALSE)
    /\ bus.key1 = \h7E
    /\ TimerReadDiv(bus.timer) # 0

---------------------------------------------------------------------------
(* Work RAM: bank 0, the banked upper half selected by SVBK, and the echo  *)
(* of both at 0xE000-0xFDFF.                                               *)

WramSvbkBytes == {\h00, \h01, \h02, \h07, \h08, \hFF}
WramBytes == {\h00, \h42}
WramAddrs == {\hC017, \hD017, \hDDFF, \hE017, \hF017, \hFDFF}
EchoProbes == {\hE000, \hE017, \hEFFF, \hF000, \hF017, \hFDFF}

WramInit == Fresh(Models)

WramWriteSvbk == \E byte \in WramSvbkBytes : DoWriteByte(\hFF70, byte)

WramWrite == \E addr \in WramAddrs, byte \in WramBytes : DoWriteByte(addr, byte)

WramNext ==
    \/ WramWriteSvbk
    \/ WramWrite

SpecWram == WramInit /\ [][WramNext]_vars

\* the bank SVBK selects: its low three bits, 0 standing for 1 (bank 1 on DMG)
SelectedBank(s) ==
    IF is_cgb(s)
    THEN (IF s.svbk % 8 = 0 THEN 1 ELSE s.svbk % 8)
    ELSE 1

\* C5: a write to 0xD000+k stores into bank SelectedBank (never bank 0) and so
\* leaves what 0xC000+k reads unchanged; a read of 0xD000+k reads that bank; a
\* write to 0xC000+k stores into bank 0.
C5_WramBanking ==
    /\ [](\A a \in WramAddrs :
            InRange(a, \hD000, \hDFFF)
            => read_byte(bus, a) = Load(bus.wram, <<SelectedBank(bus), a - \hD000>>))
    /\ [][(ret'.op = "write_byte" /\ InRange(ret'.a, \hD000, \hDFFF))
          => (/\ bus'.wram = Store(bus.wram, <<SelectedBank(bus), ret'.a - \hD000>>, ret'.b)
              /\ read_byte(bus', ret'.a - \h1000) = read_byte(bus, ret'.a - \h1000))]_vars
    /\ [][(ret'.op = "write_byte" /\ InRange(ret'.a, \hC000, \hCFFF))
          => bus'.wram = Store(bus.wram, <<0, ret'.a - \hC000>>, ret'.b)]_vars

\* C6: an echo address a in 0xE000-0xFDFF reads what a - 0x2000 reads, and a
\* write to it leaves the bus as the same write to a - 0x2000 does, on both
\* models and under every SVBK value.
C6_EchoRam ==
    \A a \in EchoProbes :
        /\ read_byte(bus, a) = read_byte(bus, a - \h2000)
        /\ \A byte \in WramBytes :
              write_byte(bus, a, byte) = write_byte(bus, a - \h2000, byte)

\* 0x42 has just been written through the echo of the banked half, bank 2
\* selected, and reads back at 0xD017
C6_Witness ==
    /\ ret = Call("write_byte", \hF017, \h42, FALSE)
    /\ is_cgb(bus)
    /\ bus.svbk = \h02
    /\ read_byte(bus, \hD017) = \h42
    /\ read_byte(bus, \hC017) = \h00

---------------------------------------------------------------------------
(* The CGB-only registers on a DMG bus.                                    *)

CgbOnlyRegs ==
    {\hFF4D, \hFF4F, \hFF51, \hFF52, \hFF53, \hFF54, \hFF55, \hFF56,
     \hFF68, \hFF69, \hFF6A, \hFF6B, \hFF6C, \hFF70}
DmgBytes == {\h00, \h01, \h80, \hFF}
DmgAddrs == {\h8000, \hD017}
DmgTCycles == {4}

DmgInit == Fresh({"DMG"})

DmgWriteCgbReg == \E addr \in CgbOnlyRegs, byte \in DmgBytes : DoWriteByte(addr, byte)

DmgWrite == \E addr \in DmgAddrs, byte \in DmgBytes : DoWriteByte(addr, byte)

DmgStep == \E t \in DmgTCycles, hb \in BOOLEAN : DoStep(t, hb, FALSE, FALSE, FALSE)

DmgSpeedSwitch == DoSpeedSwitch

DmgNext ==
    \/ DmgWriteCgbReg
    \/ DmgWrite
    \/ DmgStep
    \/ DmgSpeedSwitch

SpecDmg == DmgInit /\ [][DmgNext]_vars

\* C7: on a DMG bus every CGB-only register reads 0xFF and a write of any byte
\* to it leaves the bus as it was; hence no VRAM DMA is ever pending or run by
\* step, 0xD000-0xDFFF stays on bank 1, and speed_switch returns false.
C7_DmgIgnoresCgbRegs ==
    bus.model = "DMG"
    => (/\ \A a \in CgbOnlyRegs :
              /\ read_byte(bus, a) = \hFF
              /\ \A byte \in DmgBytes : write_byte(bus, a, byte) = bus
        /\ bus.hdma_mode = "None"
        /\ step_vram_dma(bus) = [bus |-> bus, t |-> 0]
        /\ read_byte(bus, \hD017) = Load(bus.wram, <<1, \h017>>)
        /\ speed_switch(bus) = [bus |-> bus, val |-> FALSE])

\* on DMG, with the PPU reporting HBlank, a write of 0x80 to HDMA5 (which on
\* CGB starts an HBlank transfer) has just returned
C7_Witness ==
    /\ bus.model = "DMG"
    /\ ret = Call("write_byte", \hFF55, \h80, FALSE)
    /\ PpuEnteredHblank(bus.ppu)
    /\ read_byte(bus, \hD017) = \h80

---------------------------------------------------------------------------
(* OAM DMA: transfers started by writes to 0xFF46 and advanced one M-cycle *)
(* at a time by partial_step, with CPU writes to the source page and to    *)
(* OAM in between.  A transfer is started when the engine is idle.         *)

MaxDmaStarts == 2
OamPages == {\h00, \hC0}
OamTCycles == {16}
OamSourceBytes == {\h42}
OamCpuBytes == {\h99}
\* the T-cycle counts the claims try partial_step with in every state: one and
\* two M-cycles, and more M-cycles than a whole transfer takes
OamProbeTCycles == {4, 8, 644}

OamInit == Fresh({"CGB"})

OamStart ==
    /\ oam_dma.starts < MaxDmaStarts
    /\ bus.dma_ticks = DMA_M_CYCLES
    /\ \E page \in OamPages : DoWriteByte(\hFF46, page)

OamTick ==
    /\ bus.dma_ticks < DMA_M_CYCLES
    /\ \E t \in OamTCycles : DoPartialStep(t, FALSE)

OamWriteSource == \E byte \in OamSourceBytes : DoWriteByte(\hC017, byte)

OamWriteOam == \E byte \in OamCpuBytes : DoWriteByte(\hFE17, byte)

OamNext ==
    \/ OamStart
    \/ OamTick
    \/ OamWriteSource
    \/ OamWriteOam

SpecOamDma == OamInit /\ [][OamNext]_vars

OamByte(s, i) == PpuReadOam(s.ppu, OAM_START + i)

\* C8 (start): a write of N to 0xFF46 sets the source to N<<8 and leaves the
\* counter at 1 with byte 0 already copied and the rest of OAM as it was.
C8_Start(s) ==
    \A page \in OamPages :
        LET s2 == write_byte(s, \hFF46, page)
        IN  /\ s2.dma_start = page * 256
            /\ s2.dma_ticks = 1
            /\ OamByte(s2, 0) = read_byte(s, page * 256)
            /\ \A i \in 1..(DMA_M_CYCLES - 1) : OamByte(s2, i) = OamByte(s, i)

\* C8 (progress): partial_step(t) performs one tick per M-cycle, t \div 4 of
\* them or as many as remain up to 160; tick i copies the byte read_byte gives
\* at source + i to OAM 0xFE00 + i; at 160 the engine is idle.
C8_Progress(s) ==
    \A t \in OamProbeTCycles :
        LET s2 == partial_step(s, t, FALSE)
            n == Min(t \div 4, DMA_M_CYCLES - s.dma_ticks)
        IN  /\ s2.dma_ticks = s.dma_ticks + n
            /\ s2.dma_start = s.dma_start
            /\ \A i \in 0..(DMA_M_CYCLES - 1) :
                  OamByte(s2, i) =
                      IF s.dma_ticks <= i /\ i < s.dma_ticks + n
                      THEN read_byte(s, s.dma_start + i)
                      ELSE OamByte(s, i)

C17_OamDmaBounded ==
    /\ bus.dma_ticks <= DMA_M_CYCLES
    /\ \A model \in Models : NewBus(model).dma_ticks = DMA_M_CYCLES
    /\ ret = NoCall => bus.dma_ticks = DMA_M_CYCLES
    /\ \A t \in OamProbeTCycles :
          LET s2 == partial_step(bus, t, FALSE)
          IN  /\ s2.dma_ticks <= DMA_M_CYCLES
              /\ bus.dma_ticks = DMA_M_CYCLES =>
                    (s2.dma_ticks = DMA_M_CYCLES /\ s2.ppu.oam = bus.ppu.oam)
              /\ bus.dma_ticks + t \div 4 > DMA_M_CYCLES => s2.dma_ticks = DMA_M_CYCLES

\* the partial_step of four M-cycles that completes a transfer has just
\* returned; the write left the counter at 1 and every call before added four,
\* so three ticks remained
C17_Witness ==
    /\ ret = Call("partial_step", 16, 0, FALSE)
    /\ oam_dma.starts > 0
    /\ bus.dma_ticks = DMA_M_CYCLES

\* addresses other than 0xFF46 the CPU writes to during a transfer
OamOtherAddrs == {\hC017, \hFE17, \hFF04, \hFF40, \hFF45, \hFF47, \hFF55, \hFFFF}

\* the tick counter is at least as high in s2 as in s
OamCounterKept(s, s2) == s2.dma_ticks >= s.dma_ticks

\* the operations other than a write to 0xFF46 do not lower the counter
OamOthersKeepCounter(s) ==
    /\ \A t \in OamProbeTCycles : OamCounterKept(s, partial_step(s, t, FALSE))
    /\ \A t \in OamTCycles, hb \in BOOLEAN : OamCounterKept(s, step(s, t, hb, FALSE, FALSE, FALSE))
    /\ \A interrupt \in Interrupts : OamCounterKept(s, request_interrupt(s, interrupt))
    /\ OamCounterKept(s, speed_switch(s).bus)
    /\ \A addr \in OamOtherAddrs, byte \in OamCpuBytes :
          OamCounterKept(s, write_byte(s, addr, byte))

\* C18 as stated: while a transfer runs, no bus operation lowers the tick
\* counter, a write to 0xFF46 included.
C18_OamCounterMonotone ==
    bus.dma_ticks < DMA_M_CYCLES =>
        /\ OamOthersKeepCounter(bus)
        /\ \A page \in OamPages : OamCounterKept(bus, write_byte(bus, \hFF46, page))

\* C18 (amended): while a transfer runs, no bus operation other than a write
\* to 0xFF46 lowers the tick counter; a write to 0xFF46 starts a new transfer,
\* which leaves the counter at 1 whatever it was.
C18_OamCounterRestart ==
    /\ bus.dma_ticks < DMA_M_CYCLES => OamOthersKeepCounter(bus)
    /\ \A page \in OamPages : write_byte(bus, \hFF46, page).dma_ticks = 1

\* a CPU write to OAM has just returned while a transfer is under way
C18_Witness ==
    /\ ret = Call("write_byte", \hFE17, \h99, FALSE)
    /\ bus.dma_ticks > 1
    /\ bus.dma_ticks < DMA_M_CYCLES

---------------------------------------------------------------------------
(* VRAM DMA on CGB: writes to HDMA1 (source page), HDMA4 (destination low  *)
(* byte) and HDMA5 (length and mode), and step calls with the PPU          *)
(* reporting HBlank or not.  Sources are ROM 0x0000 and 0x0100, and        *)
(* destinations 0x8000 and 0x8010.                                         *)

HdmaSourcePages == {\h01}
HdmaDestBytes == {\h10}
HdmaGdmaBytes == {\h00, \h01, \h02}
HdmaHblankBytes == {\h80, \h81, \h82}
HdmaTCycles == {4}
\* the part of VRAM the transfers above can reach
HdmaVramWindow == \h8000..\h803F

HdmaInit == Fresh({"CGB"})

HdmaWriteSource == \E byte \in HdmaSourcePages : DoWriteByte(\hFF51, byte)

HdmaWriteDest == \E byte \in HdmaDestBytes : DoWriteByte(\hFF54, byte)

HdmaWriteHdma5 == \E byte \in HdmaGdmaBytes \cup HdmaHblankBytes : DoWriteByte(\hFF55, byte)

HdmaStep == \E t \in HdmaTCycles, hb \in BOOLEAN : DoStep(t, hb, FALSE, FALSE, FALSE)

HdmaNext ==
    \/ HdmaWriteSource
    \/ HdmaWriteDest
    \/ HdmaWriteHdma5
    \/ HdmaStep

SpecHdma == HdmaInit /\ [][HdmaNext]_vars

\* in s2, destination bytes from..(to - 1) of the transfer set up in s hold
\* the source bytes s had there
HdmaCopied(s, s2, from, to) ==
    \A i \in from..(to - 1) :
        PpuReadVram(s2.ppu, hdma_dest_start(s) + i) = read_byte(s, hdma_source_start(s) + i)

\* s2 has the VRAM of s except for destination bytes from..(to - 1)
HdmaRestKept(s, s2, from, to) ==
    \A a \in HdmaVramWindow :
        \/ hdma_dest_start(s) + from <= a /\ a < hdma_dest_start(s) + to
        \/ PpuReadVram(s2.ppu, a) = PpuReadVram(s.ppu, a)

\* C9 as stated: on CGB a write to HDMA5 with bit 7 clear, the mode not being
\* the HBlank-paced one, performs the whole transfer before write_byte
\* returns: the (L+1)*16 destination bytes equal the source bytes, the mode is
\* idle and 0xFF55 reads 0xFF.
C9_GdmaImmediate ==
    \A byte \in HdmaGdmaBytes :
        bus.hdma_mode # "HDMA" =>
            LET s1 == write_byte(bus, \hFF55, byte)
                n == (byte + 1) * HDMA_BLOCK_SIZE
            IN  /\ HdmaCopied(bus, s1, 0, n)
                /\ s1.hdma_mode = "None"
                /\ read_byte(s1, \hFF55) = \hFF

\* C9 (amended): the write only arms the general-purpose transfer: when
\* write_byte returns VRAM is as it was and 0xFF55 reads 0x80 | L; the next
\* step call copies the (L+1)*16 bytes and nothing else, and leaves the mode
\* idle and 0xFF55 reading 0xFF.
C9_GdmaOnNextStep ==
    \A byte \in HdmaGdmaBytes :
        bus.hdma_mode # "HDMA" =>
            LET s1 == write_byte(bus, \hFF55, byte)
                n == (byte + 1) * HDMA_BLOCK_SIZE
            IN  /\ s1.hdma_mode = "GDMA"
                /\ s1.ppu = bus.ppu
                /\ read_byte(s1, \hFF55) = BitOr(\h80, byte)
                /\ \A t \in HdmaTCycles, hb \in BOOLEAN :
                      LET s2 == step(s1, t, hb, FALSE, FALSE, FALSE)
                      IN  /\ HdmaCopied(bus, s2, 0, n)
                          /\ HdmaRestKept(bus, s2, 0, n)
                          /\ s2.hdma_mode = "None"
                          /\ read_byte(s2, \hFF55) = \hFF

\* the step call after a write of 0x01 to HDMA5 with source 0x0100 and
\* destination 0x8000 has just returned, having copied two blocks
C9_Witness ==
    /\ ret.op = "step"
    /\ ret.b = 4 + 2 * BLOCK_T_CYCLES
    /\ bus.hdma5 = \h01
    /\ hdma_source_start(bus) = \h0100
    /\ hdma_dest_start(bus) = \h8000
    /\ bus.hdma_mode = "None"
    /\ read_byte(bus, \hFF55) = \hFF
    /\ \A i \in 0..31 : read_byte(bus, \h8000 + i) = read_byte(bus, \h0100 + i)

\* C10: a write to HDMA5 with bit 7 set starts an HBlank-paced transfer with
\* nothing copied.  While it runs, bit 7 of 0xFF55 reads 0 and fewer than L+1
\* blocks have been copied; a step call in which the PPU reports
\* entered_hblank copies exactly the next 16-byte block and any other step call
\* copies nothing; the step that copies block L+1 leaves the mode idle and
\* 0xFF55 reading 0xFF, and no earlier one does.
C10_HdmaPerHblank ==
    /\ \A byte \in HdmaHblankBytes :
          LET s1 == write_byte(bus, \hFF55, byte)
          IN  /\ s1.hdma_mode = "HDMA"
              /\ s1.hdma_bytes = 0
              /\ s1.ppu = bus.ppu
    /\ bus.hdma_mode = "HDMA" =>
          LET total == (BitAnd(bus.hdma5, \h7F) + 1) * HDMA_BLOCK_SIZE
              done == bus.hdma_bytes
          IN  /\ BitAnd(read_byte(bus, \hFF55), \h80) = 0
              /\ done % HDMA_BLOCK_SIZE = 0
              /\ done < total
              /\ \A t \in HdmaTCycles, hb \in BOOLEAN :
                    LET s2 == step(bus, t, hb, FALSE, FALSE, FALSE)
                    IN  IF PpuEnteredHblank(bus.ppu)
                        THEN /\ s2.hdma_bytes = done + HDMA_BLOCK_SIZE
                             /\ HdmaCopied(bus, s2, done, done + HDMA_BLOCK_SIZE)
                             /\ HdmaRestKept(bus, s2, done, done + HDMA_BLOCK_SIZE)
                             /\ IF s2.hdma_bytes = total
                                THEN s2.hdma_mode = "None" /\ read_byte(s2, \hFF55) = \hFF
                                ELSE s2.hdma_mode = "HDMA"
                        ELSE /\ s2.hdma_bytes = done
                             /\ s2.ppu.vram = bus.ppu.vram
                             /\ s2.hdma_mode = "HDMA"

\* the third HBlank step of a three-block HBlank-paced transfer from 0x0100
\* to 0x8000 has just returned: 48 bytes are copied and the engine is idle
C10_Witness ==
    /\ ret.op = "step"
    /\ ret.val
    /\ ret.b = 4 + BLOCK_T_CYCLES
    /\ bus.hdma5 = \h82
    /\ bus.hdma_bytes = 3 * HDMA_BLOCK_SIZE
    /\ hdma_source_start(bus) = \h0100
    /\ hdma_dest_start(bus) = \h8000
    /\ bus.hdma_mode = "None"
    /\ read_byte(bus, \hFF55) = \hFF
    /\ \A i \in 0..47 : read_byte(bus, \h8000 + i) = read_byte(bus, \h0100 + i)

\* C11: on CGB a write to HDMA5 with bit 7 clear while an HBlank-paced
\* transfer is active cancels it: the mode becomes idle, neither the write nor
\* a later step copies a block, and 0xFF55 then reads bit 7 set with the low 7
\* bits equal to the remaining-blocks count reached before the write, whatever
\* the low bits of the byte written.
C11_CancelLatchesRemaining ==
    \A byte \in HdmaGdmaBytes :
        bus.hdma_mode = "HDMA" =>
            LET s1 == write_byte(bus, \hFF55, byte)
            IN  /\ s1.hdma_mode = "None"
                /\ s1.ppu = bus.ppu
                /\ \A t \in HdmaTCycles, hb \in BOOLEAN :
                      step(s1, t, hb, FALSE, FALSE, FALSE).ppu.vram = bus.ppu.vram
                /\ read_byte(s1, \hFF55) = BitOr(\h80, bus.hdma_length)

\* addresses other than HDMA5 the CPU writes to during a transfer
HdmaOtherAddrs == {\h8000, \hC000, \hFF46, \hFF4F, \hFF51, \hFF52, \hFF53, \hFF54, \hFFFF}
HdmaOtherBytes == {\h00, \h10}

\* s2 is still in the HBlank-paced mode with fewer bytes counted than s
HdmaCounterLowered(s, s2) == s2.hdma_mode = "HDMA" /\ s2.hdma_bytes < s.hdma_bytes

\* the operations other than a write to HDMA5 do not lower the bytes counter
HdmaOthersKeepCounter(s) ==
    /\ \A t \in HdmaTCycles, hb \in BOOLEAN :
          ~HdmaCounterLowered(s, step(s, t, hb, FALSE, FALSE, FALSE))
    /\ \A t \in HdmaTCycles : ~HdmaCounterLowered(s, partial_step(s, t, FALSE))
    /\ \A interrupt \in Interrupts : ~HdmaCounterLowered(s, request_interrupt(s, interrupt))
    /\ ~HdmaCounterLowered(s, speed_switch(s).bus)
    /\ \A addr \in HdmaOtherAddrs, byte \in HdmaOtherBytes :
          ~HdmaCounterLowered(s, write_byte(s, addr, byte))

\* C19 as stated: while an HBlank-paced transfer is active, no bus operation,
\* a write to HDMA5 included, lowers the bytes counter without the mode
\* becoming idle.
C19_HdmaCounterMonotone ==
    bus.hdma_mode = "HDMA" =>
        /\ HdmaOthersKeepCounter(bus)
        /\ \A byte \in HdmaGdmaBytes \cup HdmaHblankBytes :
              ~HdmaCounterLowered(bus, write_byte(bus, \hFF55, byte))

\* C19 (amended): while an HBlank-paced transfer is active, no bus operation
\* other than a write to HDMA5 lowers the bytes counter; a write to HDMA5 with
\* bit 7 set starts a new HBlank-paced transfer with the counter at 0, and one
\* with bit 7 clear makes the mode idle.
C19_HdmaCounterRestart ==
    bus.hdma_mode = "HDMA" =>
        /\ HdmaOthersKeepCounter(bus)
        /\ \A byte \in HdmaHblankBytes :
              LET s1 == write_byte(bus, \hFF55, byte)
              IN  s1.hdma_mode = "HDMA" /\ s1.hdma_bytes = 0
        /\ \A byte \in HdmaGdmaBytes : write_byte(bus, \hFF55, byte).hdma_mode = "None"

\* the second HBlank step of a three-block transfer has just returned: 32
\* bytes are counted and the transfer is still active
C19_Witness ==
    /\ ret.op = "step"
    /\ ret.val
    /\ bus.hdma5 = \h82
    /\ bus.hdma_mode = "HDMA"
    /\ bus.hdma_bytes = 2 * HDMA_BLOCK_SIZE

\* register settings <<HDMA1, HDMA2, HDMA3, HDMA4>> tried in every state: low
\* source and destination bits set, and destination bits above bit 12 set
HdmaRegProbes == {<<\h01, \h0F, \h00, \h1F>>, <<\h40, \h25, \hF8, \hA3>>}

\* the bus after the CPU has written the four registers
HdmaSetRegs(s, regs) ==
    write_byte(write_byte(write_byte(write_byte(s, \hFF51, regs[1]), \hFF52, regs[2]),
                          \hFF53, regs[3]), \hFF54, regs[4])

\* ((HDMA1 << 8) | HDMA2) & 0xFFF0 and 0x8000 | (((HDMA3 << 8) | HDMA4) & 0x1FF0)
HdmaSourceOf(regs) == regs[1] * 256 + regs[2] - (regs[2] % 16)
HdmaDestOf(regs) == \h8000 + (regs[3] % 32) * 256 + regs[4] - (regs[4] % 16)

\* s2 has the VRAM of s outside addresses lo..(hi - 1)
VramKeptOutside(s, s2, lo, hi) ==
    \A a \in DOMAIN s.ppu.vram \cup DOMAIN s2.ppu.vram :
        (lo <= a /\ a < hi) \/ PpuReadVram(s2.ppu, a) = PpuReadVram(s.ppu, a)

\* C20: when the general-purpose transfer started by writing L to HDMA5
\* completes, byte k of source = ((HDMA1<<8)|HDMA2) & 0xFFF0 is at byte k of
\* dest = 0x8000 | (((HDMA3<<8)|HDMA4) & 0x1FF0) for every k below (L+1)*16
\* and VRAM is otherwise as before; the mode is idle, the remaining field is
\* 0x7F and 0xFF55 reads 0xFF; a further step copies nothing.
C20_GdmaComplete ==
    \A regs \in HdmaRegProbes, byte \in HdmaGdmaBytes, t \in HdmaTCycles :
        bus.hdma_mode # "HDMA" =>
            LET s0 == HdmaSetRegs(bus, regs)
                s2 == step(write_byte(s0, \hFF55, byte), t, FALSE, FALSE, FALSE, FALSE)
                n == (byte + 1) * HDMA_BLOCK_SIZE
            IN  /\ \A k \in 0..(n - 1) :
                      PpuReadVram(s2.ppu, HdmaDestOf(regs) + k)
                          = read_byte(bus, HdmaSourceOf(regs) + k)
                /\ VramKeptOutside(bus, s2, HdmaDestOf(regs), HdmaDestOf(regs) + n)
                /\ s2.hdma_bytes = n
                /\ s2.hdma_mode = "None"
                /\ s2.hdma_length = \h7F
                /\ read_byte(s2, \hFF55) = \hFF
                /\ step(s2, t, TRUE, FALSE, FALSE, FALSE).ppu.vram = s2.ppu.vram

\* a general-purpose transfer of three blocks from 0x0100 to 0x8010 has just
\* completed in a step call
C20_Witness ==
    /\ ret = Call("step", 4, 4 + 3 * BLOCK_T_CYCLES, FALSE)
    /\ bus.hdma5 = \h02
    /\ bus.hdma1 = \h01
    /\ bus.hdma4 = \h10
    /\ bus.hdma_bytes = 3 * HDMA_BLOCK_SIZE
    /\ bus.hdma_length = \h7F
    /\ \A k \in 0..47 : read_byte(bus, \h8010 + k) = read_byte(bus, \h0100 + k)

\* C22: the bytes counter is always a multiple of 16; while the mode is
\* HBlank-paced, remaining + bytes/16 equals the low seven bits of the byte
\* written to HDMA5 and bytes < (L+1)*16; so whenever an HBlank step is about
\* to decrement the remaining field, the field is not 0.
C22_HdmaCountIdentity ==
    /\ bus.hdma_bytes % HDMA_BLOCK_SIZE = 0
    /\ bus.hdma_mode = "HDMA" =>
          LET L == BitAnd(bus.hdma5, \h7F)
          IN  /\ bus.hdma_length + bus.hdma_bytes \div HDMA_BLOCK_SIZE = L
              /\ bus.hdma_bytes < (L + 1) * HDMA_BLOCK_SIZE
              /\ bus.hdma_bytes + HDMA_BLOCK_SIZE # (L + 1) * HDMA_BLOCK_SIZE
                    => bus.hdma_length > 0

\* the first HBlank step of a two-block transfer has just returned: the
\* remaining field has gone from 1 to 0 and the transfer is still active
C22_Witness ==
    /\ ret.op = "step"
    /\ ret.val
    /\ bus.hdma5 = \h81
    /\ bus.hdma_mode = "HDMA"
    /\ bus.hdma_bytes = HDMA_BLOCK_SIZE
    /\ bus.hdma_length = 0

\* register settings <<HDMA1, HDMA2, HDMA3, HDMA4>> with the highest
\* destination and with the highest source
HdmaEdgeProbes == {<<\h01, \h00, \h1F, \hF0>>, <<\hFF, \hF0, \h00, \h00>>}

\* C23: whatever HDMA1..HDMA4 and L hold, every byte a VRAM DMA writes goes to
\* an address in 0x8000..0x9FFF, and the source addresses source_start + k of
\* the (L+1)*16 bytes stay below 0x10000.
C23_DmaWithinVram ==
    \A regs \in HdmaRegProbes \cup HdmaEdgeProbes, byte \in HdmaGdmaBytes, t \in HdmaTCycles :
        bus.hdma_mode # "HDMA" =>
            LET s0 == HdmaSetRegs(bus, regs)
                s2 == step(write_byte(s0, \hFF55, byte), t, FALSE, FALSE, FALSE, FALSE)
                n == (byte + 1) * HDMA_BLOCK_SIZE
            IN  /\ \A a \in DOMAIN s2.ppu.vram : VRAM_START <= a /\ a <= VRAM_END
                /\ hdma_dest_start(s0) + n - 1 <= VRAM_END
                /\ hdma_source_start(s0) + n - 1 <= \hFFFF

---------------------------------------------------------------------------
(* APU frame sequencer: partial_step calls of several lengths at both      *)
(* speeds, the speed switched through KEY1 and speed_switch.               *)

FsTCycles == {\h0800, \h1000, \h3000}
FsKey1Bytes == {\h01}

FsInit == Fresh({"CGB"})

FsWriteKey1 == \E byte \in FsKey1Bytes : DoWriteByte(\hFF4D, byte)

FsSpeedSwitch == DoSpeedSwitch

FsPartialStep == \E t \in FsTCycles, overflow \in BOOLEAN : DoPartialStep(t, overflow)

FsNext ==
    \/ FsWriteKey1
    \/ FsSpeedSwitch
    \/ FsPartialStep

SpecFrameSeq == FsInit /\ [][FsNext]_vars

\* the DIV bit the frame sequencer follows
FsBit(s) == IF s.double_speed THEN \h20 ELSE \h10

\* the selected bit is set in DIV value before and clear in DIV value after
FsFalling(s, before, after) ==
    BitAnd(before, FsBit(s)) # 0 /\ BitAnd(after, FsBit(s)) = 0

\* C14: a partial_step advances the frame sequencer once if DIV before the
\* timer step has the selected bit (bit 4 in single speed, bit 5 in double
\* speed) set and DIV after it has the bit clear, and leaves the APU alone
\* otherwise.
C14_FrameSequencerOnFallingEdge ==
    \A t \in FsTCycles, overflow \in BOOLEAN :
        LET s2 == partial_step(bus, t, overflow)
        IN  s2.apu = IF FsFalling(bus, TimerReadDiv(bus.timer), TimerReadDiv(s2.timer))
                     THEN ApuFrameSequencerStep(bus.apu)
                     ELSE bus.apu

\* in double speed a partial_step of 0x1000 T-cycles has just taken DIV from
\* 0x30 to 0x40, and the frame sequencer has advanced
C14_Witness ==
    /\ bus.double_speed
    /\ ret.op = "partial_step"
    /\ ret.a = \h1000
    /\ TimerReadDiv(bus.timer) = \h40
    /\ bus.apu.fs > 0

\* C24: a falling edge of the selected DIV bit advances the frame sequencer
\* one phase also when the edge comes from a DIV reset: a write to 0xFF04 or
\* speed_switch while the selected bit is set.
C24_DivResetAdvances ==
    /\ \A byte \in FsKey1Bytes :
           LET s2 == write_byte(bus, \hFF04, byte)
           IN  FsFalling(bus, TimerReadDiv(bus.timer), TimerReadDiv(s2.timer))
                   => s2.apu = ApuFrameSequencerStep(bus.apu)
    /\ LET s2 == speed_switch(bus).bus
       IN  FsFalling(bus, TimerReadDiv(bus.timer), TimerReadDiv(s2.timer))
               => s2.apu = ApuFrameSequencerStep(bus.apu)

---------------------------------------------------------------------------
(* Serial log: bytes written to 0xFF01, with writes to the serial control  *)
(* register, step calls and speed switches in between.                     *)

MaxSerialLen == 3
SerialBytes == {\h48, \h69, \h0A, \hFF}
SerialOtherAddrs == {\hFF00, \hFF02, \hFF0F, \hFF4D, \hC000, \hFFFF}
SerialOtherBytes == {\h00, \h81}
SerialTCycles == {4}

SerialInit == Fresh(Models)

SerialWrite ==
    /\ Len(bus.serial_output) < MaxSerialLen
    /\ \E byte \in SerialBytes : DoWriteByte(\hFF01, byte)

SerialWriteControl == DoWriteByte(\hFF02, \h81)

SerialStep == \E t \in SerialTCycles : DoStep(t, FALSE, FALSE, FALSE, FALSE)

SerialSpeedSwitch == DoSpeedSwitch

SerialNext ==
    \/ SerialWrite
    \/ SerialWriteControl
    \/ SerialStep
    \/ SerialSpeedSwitch

SpecSerial == SerialInit /\ [][SerialNext]_vars

\* C15: a write of a byte to 0xFF01 appends that byte, as one character, to
\* the serial log, keeping what the log held; writes to other addresses,
\* partial_step, step and speed_switch leave the log as it is.  (Reads take the
\* bus by shared reference and change nothing.)
C15_SerialLog ==
    /\ \A byte \in SerialBytes :
          LET log == write_byte(bus, \hFF01, byte).serial_output
          IN  /\ Len(log) = Len(bus.serial_output) + 1
              /\ SubSeq(log, 1, Len(bus.serial_output)) = bus.serial_output
              /\ log[Len(log)] = byte
    /\ \A addr \in SerialOtherAddrs, byte \in SerialOtherBytes :
          write_byte(bus, addr, byte).serial_output = bus.serial_output
    /\ \A t \in SerialTCycles, overflow \in BOOLEAN :
          partial_step(bus, t, overflow).serial_output = bus.serial_output
    /\ \A t \in SerialTCycles, hb \in BOOLEAN, vb \in BOOLEAN :
          step(bus, t, hb, vb, FALSE, FALSE).serial_output = bus.serial_output
    /\ speed_switch(bus).bus.serial_output = bus.serial_output

\* 0x48, 0x69, 0x0A have been written to 0xFF01 in that order: the log reads
\* "Hi\n"
C15_Witness ==
    /\ ret = Call("write_byte", \hFF01, \h0A, FALSE)
    /\ bus.serial_output = <<\h48, \h69, \h0A>>

---------------------------------------------------------------------------
(* The step budget: step calls at both speeds and on both models, with     *)
(* general-purpose and HBlank-paced transfers from ROM 0x0000 to 0x8000.   *)

BudgetHdma5Bytes == {\h00, \h01, \h80, \h81}
BudgetTCycles == {4, 5}

BudgetInit == Fresh(Models)

BudgetWriteKey1 == DoWriteByte(\hFF4D, \h01)

BudgetSpeedSwitch == DoSpeedSwitch

BudgetWriteHdma5 == \E byte \in BudgetHdma5Bytes : DoWriteByte(\hFF55, byte)

BudgetStep == \E t \in BudgetTCycles, hb \in BOOLEAN : DoStep(t, hb, FALSE, FALSE, FALSE)

BudgetNext ==
    \/ BudgetWriteKey1
    \/ BudgetSpeedSwitch
    \/ BudgetWriteHdma5
    \/ BudgetStep

SpecBudget == BudgetInit /\ [][BudgetNext]_vars

\* the number of blocks a step from s copies
BudgetBlocks(s) ==
    IF s.model = "DMG" THEN 0
    ELSE CASE s.hdma_mode = "None" -> 0
           [] s.hdma_mode = "HDMA" -> (IF PpuEnteredHblank(s.ppu) THEN 1 ELSE 0)
           [] s.hdma_mode = "GDMA" -> BitAnd(s.hdma5, \h7F) + 1

\* C21: step(t) gives the APU and the PPU b + 32*n T-cycles each, with b = t
\* in single speed and floor(t/2) in double speed and n the number of blocks
\* the step copies (none on DMG or when idle, one for an HBlank block, L+1 for
\* a general-purpose transfer); and the APU and PPU are stepped on the bus the
\* copy has left.
C21_StepBudget ==
    \A t \in BudgetTCycles, hb \in BOOLEAN :
        LET s2 == step(bus, t, hb, FALSE, FALSE, FALSE)
            b == IF bus.double_speed THEN t \div 2 ELSE t
            n == BudgetBlocks(bus)
            copied == step_vram_dma(bus).bus
        IN  /\ s2.apu.cycles = b + 32 * n
            /\ s2.ppu.cycles = b + 32 * n
            /\ copied.hdma_bytes = bus.hdma_bytes + HDMA_BLOCK_SIZE * n
            /\ s2.ppu.vram = copied.ppu.vram
            /\ s2 = [copied EXCEPT !.apu.cycles = b + 32 * n,
                                   !.ppu.cycles = b + 32 * n,
                                   !.ppu.hblank = hb,
                                   !.ppu.vblank = FALSE,
                                   !.ppu.stat = FALSE]

\* in double speed a step of 5 T-cycles that ran a two-block general-purpose
\* transfer has just returned: the APU and PPU were given 2 + 64 T-cycles
C21_Witness ==
    /\ bus.double_speed
    /\ ret.op = "step"
    /\ ret.a = 5
    /\ bus.hdma5 = \h01
    /\ bus.hdma_bytes = 2 * HDMA_BLOCK_SIZE
    /\ bus.apu.cycles = 66
    /\ bus.ppu.cycles = 66

---------------------------------------------------------------------------
(* CPU steps: instructions that touch IE, IF and the CPU's interrupt       *)
(* flags, with timer overflow during the instruction and PPU and joypad    *)
(* edges in its post-instruction step.                                     *)

MaxCpuDiv == 16

CpuInstrs ==
    {[op |-> o, addr |-> 0, byte |-> 0] : o \in {"NOP", "EI", "DI", "HALT"}}
        \cup {[op |-> "LDH", addr |-> \hFFFF, byte |-> \h1F],
              [op |-> "LDH", addr |-> \hFFFF, byte |-> \h12],
              [op |-> "LDH", addr |-> \hFF0F, byte |-> \h08]}

CpuEnableProbes == {\h00, \h0A, \hE0, \hFF}

CpuInit == Fresh(Models)

CpuStep ==
    \E instr \in CpuInstrs, overflow \in BOOLEAN, vb \in BOOLEAN, st \in BOOLEAN, jp \in BOOLEAN :
        /\ bus.timer.div < MaxCpuDiv
        /\ \E r \in {cpu_step(cpu, bus, instr, overflow, vb, st, jp)} :
               /\ bus' = r.bus
               /\ cpu' = r.cpu
               /\ ret' = Call("cpu_step",
                              IF r.dispatched = "None" THEN 0 ELSE InterruptBit(r.dispatched),
                              0, FALSE)
        /\ TrackOamDma(FALSE)

CpuNext == CpuStep

SpecCpu == CpuInit /\ [][CpuNext]_vars

\* C25: get_pending_interrupt returns the interrupt of the lowest bit set in
\* IE & IF & 0x1F (VBlank 0, Stat 1, Timer 2, Serial 3, Joypad 4), returns None
\* exactly when IE & IF & 0x1F is 0, whatever the top three bits of IE and IF
\* are, and leaves the bus, IE and IF included, as it was.
C25_PendingPriority ==
    \A ie \in CpuEnableProbes \cup {bus.interrupt_enable} :
        LET s == write_byte(bus, \hFFFF, ie)
            r == get_pending_interrupt(s)
            m == BitAnd(BitAnd(read_byte(s, \hFFFF), read_byte(s, \hFF0F)), \h1F)
        IN  /\ r.val = "None" <=> m = 0
            /\ m # 0 =>
                  /\ r.val \in Interrupts
                  /\ BitAnd(m, 2 ^ IrqBitIndex(r.val)) # 0
                  /\ \A k \in 0..4 : k < IrqBitIndex(r.val) => BitAnd(m, 2 ^ k) = 0
            /\ r.bus = s

\* with IE = 0x12 and VBlank and Joypad flagged, the pending interrupt is Joypad
C25_Witness ==
    /\ ret.op = "cpu_step"
    /\ bus.interrupt_enable = \h12
    /\ BitAnd(read_byte(bus, \hFF0F), \h1F) = \h11
    /\ get_pending_interrupt(bus).val = "Joypad"

\* the bus at the dispatch check of a Cpu::step: after the accesses of the
\* instruction, if one is executed
CpuAtCheck(instr, overflow) ==
    IF cpu.halted
    THEN bus
    ELSE execute_next_instruction(cpu, bus, instr, overflow).bus

\* IME at the dispatch check of a Cpu::step
CpuImeAtCheck(instr) ==
    (cpu.ime \/ cpu.scheduled_ei) /\ (cpu.halted \/ instr.op # "DI")

\* C26: the dispatch check of a Cpu::step sees IF as the instruction's
\* accesses left it, before the post-instruction step: an interrupt is
\* dispatched only if it is pending then and IME is set, a pending enabled
\* interrupt clears halted, and the bits the post step raises (VBlank, STAT,
\* joypad) are still set in IF when Cpu::step returns, to be seen by the
\* dispatch check of the following Cpu::step.
C26_DispatchBeforePostStep ==
    /\ ret.op = "cpu_step" =>
          LET raised == (IF PpuEnteredVblank(bus.ppu) THEN 1 ELSE 0)
                            + (IF PpuStatTriggered(bus.ppu) THEN 2 ELSE 0)
              next == cycle(cpu, bus, [op |-> "NOP", addr |-> 0, byte |-> 0], FALSE)
          IN  /\ BitAnd(read_byte(bus, \hFF0F), raised) = raised
              /\ BitAnd(read_byte(bus, \hFFFF), raised) # 0 =>
                    /\ get_pending_interrupt(bus).val # "None"
                    /\ ~next.cpu.halted
                    /\ cpu.ime \/ cpu.scheduled_ei =>
                          next.dispatched = get_pending_interrupt(bus).val
    /\ \A instr \in CpuInstrs, overflow \in BOOLEAN :
          LET p == get_pending_interrupt(CpuAtCheck(instr, overflow)).val
              r == cycle(cpu, bus, instr, overflow)
              whole == cpu_step(cpu, bus, instr, overflow, TRUE, TRUE, TRUE)
          IN  /\ p # "None" => ~r.cpu.halted
              /\ r.dispatched # "None" => CpuImeAtCheck(instr) /\ r.dispatched = p
              /\ p # "None" /\ CpuImeAtCheck(instr) => r.dispatched = p
              /\ p = "None" => r.cpu.halted = (cpu.halted \/ instr.op = "HALT")
              /\ whole.dispatched = r.dispatched
              /\ BitAnd(read_byte(whole.bus, \hFF0F), \h13) = \h13
              /\ whole.bus = step(r.bus, 4 * r.cycles, FALSE, TRUE, TRUE, TRUE)

\* a Cpu::step has dispatched the Timer interrupt, and the VBlank interrupt its
\* post step raised is enabled and still pending
C26_Witness ==
    /\ ret.op = "cpu_step"
    /\ ret.a = InterruptBit("Timer")
    /\ PpuEnteredVblank(bus.ppu)
    /\ BitAnd(read_byte(bus, \hFFFF), 1) # 0
    /\ BitAnd(read_byte(bus, \hFF0F), 1) # 0

====
